---- MODULE Spec2Model ----
(***************************************************************************)
(* A model of OwidTable (src/coreTable/OwidTable.ts): an entity/time table *)
(* with a per-table selection of rows, filters that return child tables,   *)
(* closest-time matching, and the legacy variable ingestion.               *)
(*                                                                         *)
(* Row objects live in `heap`; a table holds references (heap indices) to  *)
(* its rows, so that a child produced by a filter shares the row objects   *)
(* of its parent, and a selection is a set of row references.              *)
(***************************************************************************)
EXTENDS Integers, Sequences, FiniteSets, TLC

VARIABLES heap, tables, last, json, csv, out

vars == <<heap, tables, last, json, csv, out>>

----------------------------------------------------------------------------
(* Bounds of the explored inputs *)

MaxRows == 2
MaxTime == 2
MaxTolerance == 1
MaxPop == 2
MaxTables == 3

(* Input alphabet *)

EntityNames == {"A", "B"}
Times == 0 .. MaxTime
Tolerances == 0 .. MaxTolerance
MinPops == 1 .. MaxPop

(* entity metadata carried by the rows of the input table: B has no code *)
EntityIdOf == [n \in EntityNames |-> IF n = "A" THEN 1 ELSE 2]
EntityCodeOf == [n \in EntityNames |-> IF n = "A" THEN "AA" ELSE ""]
CodeInputs == {"AA", "B", "ZZ"}
IdInputs == {1, 2, 9}

(* JS undefined, for an entity name and for an index *)
Undefined == "undefined"
NoIndex == -1

(* the static entity-name -> population reference data; 0 stands for an    *)
(* entity that has no entry                                                *)
populationMap == [n \in EntityNames |-> IF n = "A" THEN 1 ELSE 0]

----------------------------------------------------------------------------
(* Helpers over sequences and sets *)

Abs(x) == IF x < 0 THEN -x ELSE x

Range(s) == {s[i] : i \in DOMAIN s}

OwidRow(name, time) ==
    [entityName |-> name, entityCode |-> EntityCodeOf[name],
     entityId |-> EntityIdOf[name], time |-> time]

RowValues == {OwidRow(n, t) : n \in EntityNames, t \in Times}

----------------------------------------------------------------------------
(* grapher/utils/Util findClosestTimeIndex: the 0-based index of the time  *)
(* closest to targetTime within tolerance, the later time on a tie.        *)

RECURSIVE ClosestScan(_, _, _, _, _)
ClosestScan(times, targetTime, tolerance, i, best) ==
    IF i > Len(times) THEN best
    ELSE LET d == Abs(times[i] - targetTime)
             bd == Abs(times[best + 1] - targetTime)
         IN  IF d > tolerance
             THEN ClosestScan(times, targetTime, tolerance, i + 1, best)
             ELSE IF best = NoIndex \/ bd > d \/ (bd = d /\ times[i] > times[best + 1])
                  THEN ClosestScan(times, targetTime, tolerance, i + 1, i - 1)
                  ELSE ClosestScan(times, targetTime, tolerance, i + 1, best)

findClosestTimeIndex(times, targetTime, tolerance) ==
    ClosestScan(times, targetTime, tolerance, 1, NoIndex)

----------------------------------------------------------------------------
(* AbstractCoreTable: construction, selection set, filterBy *)

(* new Table(rows, specs, parent, description): a table starts with an     *)
(* empty selection of its own                                              *)
NewTable(rows, parent, opName) ==
    [rows |-> rows, parent |-> parent, op |-> opName, selectedRows |-> {}]

isSelected(T, r) == r \in T.selectedRows

selectRows(T, rs) == [T EXCEPT !.selectedRows = @ \cup rs]

deselectRows(T, rs) == [T EXCEPT !.selectedRows = @ \ rs]

clearSelection(T) == [T EXCEPT !.selectedRows = {}]

unselectedRows(T) == SelectSeq(T.rows, LAMBDA r : r \notin T.selectedRows)

(* the rows of T passing the predicate, in their original order *)
filterRows(T, keep) == SelectSeq(T.rows, LAMBDA r : r \in keep)

----------------------------------------------------------------------------
(* OwidTable: indices *)

availableEntityNameSet(T) == {heap[r].entityName : r \in Range(T.rows)}

rowsByEntityName(T, name) ==
    SelectSeq(T.rows, LAMBDA r : heap[r].entityName = name)

rowTimes(rs) == [i \in DOMAIN rs |-> heap[rs[i]].time]

selectedEntityNameSet(T) == {heap[r].entityName : r \in T.selectedRows}

isEntitySelected(T, name) == name \in selectedEntityNameSet(T)

unselectedEntityNames(T) == {heap[r].entityName : r \in Range(unselectedRows(T))}

(* entityCodeToNameMap: rows in order, later rows overwrite; a row without *)
(* a code is registered under its name                                     *)
RECURSIVE CodeMapScan(_, _, _)
CodeMapScan(rs, i, map) ==
    IF i > Len(rs) THEN map
    ELSE LET row == heap[rs[i]]
             key == IF row.entityCode # "" THEN row.entityCode ELSE row.entityName
         IN  CodeMapScan(rs, i + 1,
                 [k \in DOMAIN map \cup {key} |->
                     IF k = key THEN row.entityName ELSE map[k]])

entityCodeToNameMap(T) == CodeMapScan(T.rows, 1, <<>>)

RECURSIVE IdMapScan(_, _, _)
IdMapScan(rs, i, map) ==
    IF i > Len(rs) THEN map
    ELSE LET row == heap[rs[i]]
         IN  IdMapScan(rs, i + 1,
                 [k \in DOMAIN map \cup {row.entityId} |->
                     IF k = row.entityId THEN row.entityName ELSE map[k]])

entityIdToNameMap(T) == IdMapScan(T.rows, 1, <<>>)

----------------------------------------------------------------------------
(* OwidTable: filters.  Each returns the new child table.                  *)

(* variant: the selection does not protect a row from the threshold *)
filterByPopulationIgnoringSelection(T, i, minPop) ==
    NewTable(SelectSeq(T.rows, LAMBDA r :
                 LET pop == populationMap[heap[r].entityName]
                 IN  pop = 0 \/ pop >= minPop),
             i, "filterByPopulation")

filterByPopulation(T, i, minPop) ==
    NewTable(SelectSeq(T.rows, LAMBDA r :
                 LET pop == populationMap[heap[r].entityName]
                 IN  pop = 0 \/ isSelected(T, r) \/ pop >= minPop),
             i, "filterByPopulation")

(* variant: the child is filtered by its parent's selection *)
filterBySelectedOnlyOfParent(T, i) ==
    NewTable(SelectSeq(T.rows, LAMBDA r :
                 IF T.parent = 0 THEN isSelected(T, r)
                                 ELSE isSelected(tables[T.parent], r)),
             i, "filterBySelectedOnly")

filterBySelectedOnly(T, i) ==
    NewTable(SelectSeq(T.rows, LAMBDA r : isSelected(T, r)),
             i, "filterBySelectedOnly")

(* variant: rows are matched by their time, not by identity *)
matchingRowsByTime(T, targetTime, tolerance) ==
    {r \in Range(T.rows) :
        LET rows == rowsByEntityName(T, heap[r].entityName)
            rowIndex == findClosestTimeIndex(rowTimes(rows), targetTime, tolerance)
        IN  rowIndex # NoIndex /\ heap[rows[rowIndex + 1]].time = heap[r].time}

(* the row picked for one entity: the row at the closest index, if any *)
matchingRowsOf(T, targetTime, tolerance) ==
    {r \in Range(T.rows) :
        LET rows == rowsByEntityName(T, heap[r].entityName)
            rowIndex == findClosestTimeIndex(rowTimes(rows), targetTime, tolerance)
        IN  rowIndex # NoIndex /\ rows[rowIndex + 1] = r}

filterByTargetTime(T, i, targetTime, tolerance) ==
    NewTable(filterRows(T, matchingRowsOf(T, targetTime, tolerance)),
             i, "filterByTargetTime")

(* JS truthiness of an index: undefined and 0 are both falsy *)
Truthy(rowIndex) == rowIndex # NoIndex /\ rowIndex # 0

(* the returned rows, as the set of row references of the list *)
getClosestRowForEachSelectedEntity(T, targetTime, tolerance) ==
    {r \in Range(T.rows) :
        /\ heap[r].entityName \in selectedEntityNameSet(T)
        /\ LET rows == rowsByEntityName(T, heap[r].entityName)
               rowIndex == findClosestTimeIndex(rowTimes(rows), targetTime, tolerance)
           IN  Truthy(rowIndex) /\ rows[rowIndex + 1] = r}

----------------------------------------------------------------------------
(* OwidTable: selection operations.  Each returns the table after the call *)

(* variant: the previous selection is not cleared *)
setSelectedEntitiesAdding(T, entityNames) ==
    selectRows(T, {r \in Range(T.rows) : heap[r].entityName \in entityNames})

setSelectedEntities(T, entityNames) ==
    selectRows(clearSelection(T),
               {r \in Range(T.rows) : heap[r].entityName \in entityNames})

codesInData(T, entityCodes) ==
    {code \in entityCodes : code \in DOMAIN entityCodeToNameMap(T)}

setSelectedEntitiesByCode(T, entityCodes) ==
    setSelectedEntities(T,
        {entityCodeToNameMap(T)[code] : code \in codesInData(T, entityCodes)})

(* variant: an unknown id selects nothing at all *)
setSelectedEntitiesByKnownIdsOnly(T, entityIds) ==
    IF entityIds \subseteq DOMAIN entityIdToNameMap(T)
    THEN setSelectedEntities(T, {entityIdToNameMap(T)[id] : id \in entityIds})
    ELSE clearSelection(T)

(* map.get(id)! of an unknown id is undefined *)
setSelectedEntitiesByEntityId(T, entityIds) ==
    setSelectedEntities(T,
        {IF id \in DOMAIN entityIdToNameMap(T)
            THEN entityIdToNameMap(T)[id] ELSE Undefined : id \in entityIds})

(* variant: only the first row of the entity is selected *)
selectFirstRowOfEntity(T, entityName) ==
    LET rows == rowsByEntityName(T, entityName)
    IN  selectRows(T, IF rows = <<>> THEN {} ELSE {rows[1]})

selectEntity(T, entityName) ==
    selectRows(T, Range(rowsByEntityName(T, entityName)))

deselectEntity(T, entityName) ==
    deselectRows(T, Range(rowsByEntityName(T, entityName)))

toggleSelection(T, entityName) ==
    IF isEntitySelected(T, entityName)
    THEN deselectEntity(T, entityName)
    ELSE selectEntity(T, entityName)

(* variant: the names are not resolved against the receiver's own rows *)
copySelectedRowsFrom(T, other) ==
    [T EXCEPT !.selectedRows = other.selectedRows]

copySelectionFrom(T, other) ==
    setSelectedEntities(T, selectedEntityNameSet(other))

----------------------------------------------------------------------------------------------------------------------------------------
(* The state machine of one table: every call is recorded in `last` with   *)
(* its receiver, its arguments and what it returned.                       *)

Call(op, this, args, ret) == [op |-> op, this |-> this, args |-> args, ret |-> ret]

(* what a call returns: the table it was called on (`return this`), a new  *)
(* table, or a plain list (kept as the set of its elements)                *)
ThisTable(i) == [kind |-> "this", val |-> i]
ReturnedTable(t) == [kind |-> "table", val |-> t]
List(elements) == [kind |-> "list", val |-> elements]

NoLegacy == [variables |-> <<>>]

NoCsv == [header |-> {}, rows |-> 0, specs |-> {}]

Idle == [status |-> "idle", rows |-> <<>>]

RowSeqs == [1 .. MaxRows -> RowValues]

RootTable == NewTable([i \in 1 .. MaxRows |-> i], 0, "root")

Init ==
    /\ heap \in RowSeqs
    /\ tables = <<RootTable>>
    /\ last = Call("new", 1, <<>>, ThisTable(1))
    /\ json = NoLegacy
    /\ csv = NoCsv
    /\ out = Idle

Legacy == <<json, csv, out>>

(* a selection operation on table i, leaving the new table state t *)
Selected(i, t, op, args, ret) ==
    /\ tables' = [tables EXCEPT ![i] = t]
    /\ last' = Call(op, i, args, ret)
    /\ UNCHANGED <<heap, Legacy>>

(* a transformation of table i returning the new table t, which is left   *)
(* to the caller                                                           *)
Returned(i, t, args) ==
    /\ last' = Call(t.op, i, args, ReturnedTable(t))
    /\ UNCHANGED <<heap, tables, Legacy>>

SelectEntity(i, name) ==
    Selected(i, selectEntity(tables[i], name), "selectEntity", name, ThisTable(i))

DeselectEntity(i, name) ==
    Selected(i, deselectEntity(tables[i], name), "deselectEntity", name, ThisTable(i))

ToggleSelection(i, name) ==
    Selected(i, toggleSelection(tables[i], name), "toggleSelection", name, ThisTable(i))

SetSelectedEntities(i, names) ==
    Selected(i, setSelectedEntities(tables[i], names), "setSelectedEntities", names,
             ThisTable(i))

(* returns codesInData *)
SetSelectedEntitiesByCode(i, codes) ==
    Selected(i, setSelectedEntitiesByCode(tables[i], codes),
             "setSelectedEntitiesByCode", codes,
             List(codesInData(tables[i], codes)))

(* returns what setSelectedEntities returns: the table *)
SetSelectedEntitiesByEntityId(i, ids) ==
    Selected(i, setSelectedEntitiesByEntityId(tables[i], ids),
             "setSelectedEntitiesByEntityId", ids, ThisTable(i))

(* the argument handed to setSelectedEntities is other.selectedEntityNames *)
CopySelectionFrom(i, j) ==
    Selected(i, copySelectionFrom(tables[i], tables[j]), "copySelectionFrom",
             [other |-> j, names |-> selectedEntityNameSet(tables[j])],
             ThisTable(i))

FilterByPopulation(i, minPop) ==
    Returned(i, filterByPopulation(tables[i], i, minPop), minPop)

FilterBySelectedOnly(i) ==
    Returned(i, filterBySelectedOnly(tables[i], i), <<>>)

FilterByTargetTime(i, targetTime, tolerance) ==
    Returned(i, filterByTargetTime(tables[i], i, targetTime, tolerance),
             <<targetTime, tolerance>>)

GetClosestRowForEachSelectedEntity(i, targetTime, tolerance) ==
    /\ last' = Call("getClosestRowForEachSelectedEntity", i, <<targetTime, tolerance>>,
                    List(getClosestRowForEachSelectedEntity(tables[i], targetTime,
                                                            tolerance)))
    /\ UNCHANGED <<heap, tables, Legacy>>

Next ==
    \E i \in DOMAIN tables :
        \/ \E name \in EntityNames : SelectEntity(i, name)
        \/ \E name \in EntityNames : DeselectEntity(i, name)
        \/ \E name \in EntityNames : ToggleSelection(i, name)
        \/ \E names \in SUBSET EntityNames : SetSelectedEntities(i, names)
        \/ \E codes \in SUBSET CodeInputs : SetSelectedEntitiesByCode(i, codes)
        \/ \E ids \in SUBSET IdInputs : SetSelectedEntitiesByEntityId(i, ids)
        \/ \E j \in DOMAIN tables : CopySelectionFrom(i, j)
        \/ \E minPop \in MinPops : FilterByPopulation(i, minPop)
        \/ FilterBySelectedOnly(i)
        \/ \E t \in Times, tol \in Tolerances : FilterByTargetTime(i, t, tol)
        \/ \E t \in Times, tol \in Tolerances :
               GetClosestRowForEachSelectedEntity(i, t, tol)

Spec == Init /\ [][Next]_vars

----------------------------------------------------------------------------
(* The state machine of a lineage of tables: a transformation of the      *)
(* newest table adds the table it returns to `tables`, where it can be     *)
(* selected in, copied from and transformed again.  Only chains are        *)
(* explored: tables[k + 1] is derived from tables[k].                      *)

ChainRowSeqs == [1 .. MaxRows -> {OwidRow(n, 0) : n \in EntityNames}]

InitChain ==
    /\ heap \in ChainRowSeqs
    /\ tables = <<RootTable>>
    /\ last = Call("new", 1, <<>>, ThisTable(1))
    /\ json = NoLegacy
    /\ csv = NoCsv
    /\ out = Idle

Derived(i, t, args) ==
    /\ i = Len(tables)
    /\ Len(tables) < MaxTables
    /\ tables' = Append(tables, t)
    /\ last' = Call(t.op, i, args, ReturnedTable(t))
    /\ UNCHANGED <<heap, Legacy>>

DeriveBySelectedOnly(i) ==
    Derived(i, filterBySelectedOnly(tables[i], i), <<>>)

NextChain ==
    \E i \in DOMAIN tables :
        \/ \E name \in EntityNames : ToggleSelection(i, name)
        \/ \E j \in DOMAIN tables : CopySelectionFrom(i, j)
        \/ DeriveBySelectedOnly(i)

SpecChain == InitChain /\ [][NextChain]_vars

----------------------------------------------------------------------------
(* Legacy ingestion: legacyVariablesToTabular.  A row is a function from   *)
(* column slugs to values; NoValue is an undefined number and Undefined an *)
(* undefined string.  Entity annotations are not modelled.                 *)

MaxObs == 2

NoValue == -1

LegacyTimes == {0, 1}
LegacyEntityIds == {1, 2, 3, 9}
ZeroDayDiffs == {0, 1}

(* json.entityKey: ids 1 and 3 carry the same name, id 9 has no entry *)
EntityKey ==
    (1 :> [name |-> "A", code |-> "AA"]) @@
    (2 :> [name |-> "B", code |-> "BB"]) @@
    (3 :> [name |-> "A", code |-> "A3"])

(* variable.id.toString() *)
columnSlugOf(id) == <<"1", "2">>[id]

ValueSlugs == {"1", "2"}

(* array[index] of a JS array, undefined past its end *)
At(array, index, undefined) == IF index \in DOMAIN array THEN array[index] ELSE undefined

(* the value of the k-th observation of a variable *)
ValuesOf(id, n) == [k \in 1 .. n |-> 10 * id + k]

LegacyVariable(id, yearIsDay, zeroDayDiff, entities, years, n) ==
    [id |-> id, yearIsDay |-> yearIsDay, zeroDayDiff |-> zeroDayDiff,
     entities |-> entities, years |-> years, values |-> ValuesOf(id, n)]

SeqsUpTo(S, n) == UNION {[1 .. k -> S] : k \in 0 .. n}

(* the first variable: any three arrays of up to max elements *)
FirstVariables(max) ==
    {LegacyVariable(1, d, 0, e, y, n) :
        d \in BOOLEAN, e \in SeqsUpTo(LegacyEntityIds, max),
        y \in SeqsUpTo(LegacyTimes, max), n \in 0 .. max}

(* the second variable: one observation, in years or in days since a zero  *)
(* day that may differ from the epoch                                      *)
SecondVariables ==
    {LegacyVariable(2, FALSE, 0, <<e>>, <<y>>, 1) :
        e \in LegacyEntityIds, y \in LegacyTimes}
    \cup
    {LegacyVariable(2, TRUE, z, <<e>>, <<y>>, 1) :
        e \in LegacyEntityIds, y \in LegacyTimes, z \in ZeroDayDiffs}

LegacyInputs(max) ==
    {[variables |-> <<v>>] : v \in FirstVariables(max)}
    \cup {[variables |-> <<v, w>>] : v \in FirstVariables(max), w \in SecondVariables}

(* variant: a missing entity is read as undefined instead of throwing *)
neverThrows(variable) == FALSE

(* entityMetaById[id].name of an id without an entry throws a TypeError *)
entityLookupThrows(variable) ==
    \E i \in DOMAIN variable.entities : variable.entities[i] \notin DOMAIN EntityKey

entityNamesOf(variable) ==
    [i \in DOMAIN variable.entities |->
        IF variable.entities[i] \in DOMAIN EntityKey
        THEN EntityKey[variable.entities[i]].name ELSE Undefined]

entityCodesOf(variable) ==
    [i \in DOMAIN variable.entities |->
        IF variable.entities[i] \in DOMAIN EntityKey
        THEN EntityKey[variable.entities[i]].code ELSE Undefined]

convertLegacyYears(years, diff) == [i \in DOMAIN years |-> years[i] + diff]

yearsOf(variable) ==
    IF variable.yearIsDay /\ variable.zeroDayDiff # 0
    THEN convertLegacyYears(variable.years, variable.zeroDayDiff)
    ELSE variable.years

timeColumnNameOf(variable) == IF variable.yearIsDay THEN "day" ELSE "year"

(* Object.assign({}, a, b): the fields of b win *)
Assign(a, b) == b @@ a

newRow(variable, index) ==
    LET time == At(yearsOf(variable), index, NoValue)
    IN  (timeColumnNameOf(variable) :> time) @@
        ("time" :> time) @@
        (columnSlugOf(variable.id) :> variable.values[index]) @@
        ("entityName" :> At(entityNamesOf(variable), index, Undefined)) @@
        ("entityId" :> At(variable.entities, index, NoValue)) @@
        ("entityCode" :> At(entityCodesOf(variable), index, Undefined))

newRows(variable) == [index \in DOMAIN variable.values |-> newRow(variable, index)]

RECURSIVE allRows(_, _)
allRows(variables, i) ==
    IF i > Len(variables) THEN <<>>
    ELSE newRows(variables[i]) \o allRows(variables, i + 1)

Field(row, slug, undefined) == IF slug \in DOMAIN row THEN row[slug] ELSE undefined

(* variant: rows are grouped by entity id instead of entity name *)
groupKeyById(row) ==
    IF Field(row, "year", NoValue) # NoValue
    THEN <<"year", row["year"], Field(row, "entityId", NoValue)>>
    ELSE <<"day", Field(row, "day", NoValue), Field(row, "entityId", NoValue)>>

(* `year:${row.year} ${entityName}` or `day:${row.day} ${entityName}` *)
groupKey(row) ==
    IF Field(row, "year", NoValue) # NoValue
    THEN <<"year", row["year"], row["entityName"]>>
    ELSE <<"day", Field(row, "day", NoValue), row["entityName"]>>

(* lodash groupBy: the keys in order of first occurrence *)
RECURSIVE groupKeys(_, _, _)
groupKeys(rows, i, keys) ==
    IF i > Len(rows) THEN keys
    ELSE IF \E k \in DOMAIN keys : keys[k] = groupKey(rows[i])
         THEN groupKeys(rows, i + 1, keys)
         ELSE groupKeys(rows, i + 1, Append(keys, groupKey(rows[i])))

RECURSIVE assignAll(_, _, _)
assignAll(group, i, row) ==
    IF i > Len(group) THEN row
    ELSE assignAll(group, i + 1, Assign(row, group[i]))

joinedRows(rows) ==
    LET keys == groupKeys(rows, 1, <<>>)
    IN  [k \in DOMAIN keys |->
            assignAll(SelectSeq(rows, LAMBDA row : groupKey(row) = keys[k]), 1, <<>>)]

(* lodash sortBy(rows, ["year", "day"]): ascending, undefined last, stable *)
Before(a, b, slug) ==
    LET x == Field(a, slug, NoValue)
        y == Field(b, slug, NoValue)
    IN  IF x = NoValue THEN FALSE ELSE (y = NoValue \/ x < y)

RowBefore(a, b) ==
    \/ Before(a, b, "year")
    \/ (~Before(b, a, "year") /\ Before(a, b, "day"))

RECURSIVE sortByYearDay(_)
sortByYearDay(rows) ==
    IF rows = <<>> THEN <<>>
    ELSE LET least == {i \in DOMAIN rows :
                          \A j \in DOMAIN rows : ~RowBefore(rows[j], rows[i])}
             first == CHOOSE i \in least : \A j \in least : i <= j
         IN  <<rows[first]>> \o
             sortByYearDay([k \in 1 .. Len(rows) - 1 |->
                               IF k < first THEN rows[k] ELSE rows[k + 1]])

NoError == [name |-> "none", id |-> NoValue, variable |-> NoValue]

(* the TypeError of reading `.name` of undefined names no id, no variable *)
TypeError == [name |-> "TypeError", id |-> NoValue, variable |-> NoValue]

legacyVariablesToTabular(input) ==
    IF \E i \in DOMAIN input.variables : entityLookupThrows(input.variables[i])
    THEN [status |-> "thrown", error |-> TypeError, rows |-> <<>>]
    ELSE [status |-> "returned", error |-> NoError,
          rows |-> sortByYearDay(joinedRows(allRows(input.variables, 1)))]

rowTime(row) ==
    IF Field(row, "time", NoValue) # NoValue THEN row["time"]
    ELSE IF Field(row, "year", NoValue) # NoValue THEN row["year"]
    ELSE Field(row, "day", NoValue)

InitLegacy ==
    /\ heap = <<>>
    /\ tables = <<>>
    /\ last = Call("new", 0, <<>>, ThisTable(0))
    /\ json \in LegacyInputs(MaxObs)
    /\ csv = NoCsv
    /\ out = Idle

LegacyVariablesToTabular ==
    /\ out.status = "idle"
    /\ out' = legacyVariablesToTabular(json)
    /\ UNCHANGED <<heap, tables, last, json, csv>>

NextLegacy == LegacyVariablesToTabular

SpecLegacy == InitLegacy /\ [][NextLegacy]_vars

----------------------------------------------------------------------------
(* Properties of the one-table machine (Spec) *)

thisTable == tables[last.this]

entityNameOf(r) == heap[r].entityName

(* C1: the table returned by filterByTargetTime never holds two rows of    *)
(* the same entity, also when the entity has several rows at one time or   *)
(* two times equally far from the target.                                  *)
TargetTimeOneRowPerEntity ==
    last.op = "filterByTargetTime" =>
        \A a, b \in DOMAIN last.ret.val.rows :
            entityNameOf(last.ret.val.rows[a]) = entityNameOf(last.ret.val.rows[b])
                => a = b

(* an entity with two rows equally near the target, one of them returned *)
TargetTimeTieReached ==
    /\ last.op = "filterByTargetTime"
    /\ \E a, b \in Range(thisTable.rows) :
           /\ a # b
           /\ entityNameOf(a) = entityNameOf(b)
           /\ Abs(heap[a].time - last.args[1]) = Abs(heap[b].time - last.args[1])
           /\ Abs(heap[a].time - last.args[1]) <= last.args[2]
           /\ a \in Range(last.ret.val.rows)

(* C2: getClosestRowForEachSelectedEntity returns, for every selected      *)
(* entity with a row within tolerance, exactly the row filterByTargetTime  *)
(* keeps for it, wherever that row stands among the entity's rows, and     *)
(* nothing else.                                                           *)
ClosestRowsAreTargetTimeRows ==
    last.op = "getClosestRowForEachSelectedEntity" =>
        last.ret.val =
            {r \in matchingRowsOf(thisTable, last.args[1], last.args[2]) :
                entityNameOf(r) \in selectedEntityNameSet(thisTable)}

(* C3: filterByPopulation keeps every row of a selected entity, drops the  *)
(* rows of an unselected entity whose known population is below minPop,    *)
(* and keeps those of an unselected entity at or above minPop.             *)
PopulationFilterSparesSelection ==
    last.op = "filterByPopulation" =>
        \A r \in Range(thisTable.rows) :
            LET pop == populationMap[entityNameOf(r)]
                selected == entityNameOf(r) \in selectedEntityNameSet(thisTable)
                kept == r \in Range(last.ret.val.rows)
            IN  /\ selected => kept
                /\ (~selected /\ pop # 0 /\ pop < last.args) => ~kept
                /\ (~selected /\ pop # 0 /\ pop >= last.args) => kept

(* a selected entity under the threshold survives *)
SelectedUnderThresholdKept ==
    /\ last.op = "filterByPopulation"
    /\ \E r \in Range(last.ret.val.rows) :
           /\ entityNameOf(r) \in selectedEntityNameSet(thisTable)
           /\ populationMap[entityNameOf(r)] # 0
           /\ populationMap[entityNameOf(r)] < last.args

(* C5: after setSelectedEntities(names) the selected entity names are      *)
(* exactly the names of the argument that occur in the rows, and no row    *)
(* of another entity is selected.                                          *)
SetSelectedEntitiesReplaces ==
    last.op = "setSelectedEntities" =>
        /\ selectedEntityNameSet(thisTable) =
               last.args \cap availableEntityNameSet(thisTable)
        /\ \A r \in thisTable.selectedRows : entityNameOf(r) \in last.args

(* a call that names one entity of a table holding another one too *)
SetSelectedEntitiesReached ==
    /\ last.op = "setSelectedEntities"
    /\ selectedEntityNameSet(thisTable) # {}
    /\ availableEntityNameSet(thisTable) \ last.args # {}

(* the codes and ids that name an entity of the table *)
resolvedCodes(T, codes) ==
    {c \in codes : \E r \in Range(T.rows) :
        c = (IF heap[r].entityCode # "" THEN heap[r].entityCode ELSE heap[r].entityName)}

resolvedIds(T, ids) == {id \in ids : \E r \in Range(T.rows) : heap[r].entityId = id}

namesOfCodes(T, codes) ==
    {entityNameOf(r) : r \in {q \in Range(T.rows) :
        (IF heap[q].entityCode # "" THEN heap[q].entityCode ELSE heap[q].entityName)
            \in codes}}

namesOfIds(T, ids) ==
    {entityNameOf(r) : r \in {q \in Range(T.rows) : heap[q].entityId \in ids}}

(* C6 as stated: both variants skip unknown inputs and return the inputs   *)
(* that resolved to an entity.                                             *)
ByCodeAndByIdReturnResolved ==
    /\ last.op = "setSelectedEntitiesByCode" =>
           /\ last.ret.kind = "list" /\ last.ret.val = resolvedCodes(thisTable, last.args)
           /\ selectedEntityNameSet(thisTable) = namesOfCodes(thisTable, last.args)
    /\ last.op = "setSelectedEntitiesByEntityId" =>
           /\ last.ret.kind = "list" /\ last.ret.val = resolvedIds(thisTable, last.args)
           /\ selectedEntityNameSet(thisTable) = namesOfIds(thisTable, last.args)

(* C6 amended: both variants skip unknown inputs; by-code returns the      *)
(* codes that resolved, by-id returns the table it was called on.          *)
ByCodeReturnsResolvedByIdReturnsTable ==
    /\ last.op = "setSelectedEntitiesByCode" =>
           /\ last.ret.kind = "list" /\ last.ret.val = resolvedCodes(thisTable, last.args)
           /\ selectedEntityNameSet(thisTable) = namesOfCodes(thisTable, last.args)
    /\ last.op = "setSelectedEntitiesByEntityId" =>
           /\ last.ret = ThisTable(last.this)
           /\ selectedEntityNameSet(thisTable) = namesOfIds(thisTable, last.args)

(* a by-id call with a known and an unknown id *)
UnknownIdSkipped ==
    /\ last.op = "setSelectedEntitiesByEntityId"
    /\ resolvedIds(thisTable, last.args) # {}
    /\ last.args \ resolvedIds(thisTable, last.args) # {}
    /\ selectedEntityNameSet(thisTable) # {}

----------------------------------------------------------------------------
(* Properties of the lineage machine (SpecChain) *)

CopySelectionResolvesAgainstOwnRows ==
    last.op = "copySelectionFrom" =>
        /\ selectedEntityNameSet(thisTable) =
               last.args.names \cap availableEntityNameSet(thisTable)
        /\ thisTable.selectedRows =
               {r \in Range(thisTable.rows) : entityNameOf(r) \in last.args.names}
        /\ selectedEntityNameSet(tables[last.args.other]) = last.args.names

(* a copy into a filtered table that lacks one of other's selected names *)
CopyIntoFilteredReached ==
    /\ last.op = "copySelectionFrom"
    /\ last.args.other # last.this
    /\ last.args.names \ availableEntityNameSet(thisTable) # {}
    /\ selectedEntityNameSet(thisTable) # {}

----------------------------------------------------------------------------
(* Properties of the legacy ingestion (SpecLegacy) *)

carries(row, slug) == Field(row, slug, NoValue) # NoValue

sameLength(variable) ==
    /\ Len(variable.values) = Len(variable.entities)
    /\ Len(variable.values) = Len(variable.years)

unknownEntityIds(variable) == Range(variable.entities) \ DOMAIN EntityKey

(* C8: after legacy ingestion no two rows that carry a value in the same   *)
(* value column share their (entityName, resolved time), for year and day  *)
(* variables mixed and for duplicate observations.                         *)
LegacyRowsUniquePerColumn ==
    out.status = "returned" =>
        \A slug \in ValueSlugs : \A a, b \in DOMAIN out.rows :
            (a # b /\ carries(out.rows[a], slug) /\ carries(out.rows[b], slug)) =>
                ~ /\ out.rows[a]["entityName"] = out.rows[b]["entityName"]
                  /\ rowTime(out.rows[a]) = rowTime(out.rows[b])

(* a year variable with a duplicate observation, joined with a day variable *)
DuplicateObservationMerged ==
    /\ out.status = "returned"
    /\ Len(json.variables) = 2
    /\ json.variables[1].yearIsDay # json.variables[2].yearIsDay
    /\ LET v == json.variables[1]
       IN  /\ Len(v.values) = 2 /\ sameLength(v)
           /\ EntityKey[v.entities[1]].name = EntityKey[v.entities[2]].name
           /\ v.years[1] = v.years[2]
    /\ \E a \in DOMAIN out.rows : carries(out.rows[a], "1")

UnequalArraysFail ==
    (out.status # "idle" /\ \E i \in DOMAIN json.variables :
                               ~sameLength(json.variables[i])) =>
        out.status = "thrown"

----------------------------------------------------------------------------
(* Delimited ingestion: OwidTable.fromDelimited.  The input is kept as its *)
(* header (the set of column slugs), its number of data records and the    *)
(* slugs of the specs the caller supplies.                                 *)

MaxCsvRows == 1

HeaderSlugs == {"entityName", "entityId", "entityCode", "year", "gdp"}
CallerSlugs == {"gdp", "population"}

CsvInputs ==
    [header : SUBSET HeaderSlugs, rows : 0 .. MaxCsvRows, specs : SUBSET CallerSlugs]

requiredColumnSpecs == <<"entityName", "entityId", "entityCode">>

(* one record per data line, keyed by the header's slugs *)
parseDelimited(input) ==
    [i \in 1 .. input.rows |-> [slug \in input.header |-> "cell"]]

(* parsed[0] ? Object.keys(parsed[0]) : [] *)
colSlugsOf(parsed) == IF Len(parsed) > 0 THEN DOMAIN parsed[1] ELSE {}

missingColumns(colSlugs) ==
    SelectSeq(requiredColumnSpecs, LAMBDA slug : slug \notin colSlugs)

MissingColumnsError(missing) == [name |-> "Error", missing |-> missing]

NoMissingColumns == [name |-> "none", missing |-> <<>>]

fromDelimitedCheckingSpecs(input) ==
    LET parsed == parseDelimited(input)
        missing == Range(missingColumns(colSlugsOf(parsed)))
                       \cup (input.specs \ colSlugsOf(parsed))
    IN  IF missing # {}
        THEN [status |-> "thrown", error |-> MissingColumnsError(<<>>),
              rows |-> <<>>, specs |-> {}]
        ELSE [status |-> "returned", error |-> NoMissingColumns, rows |-> parsed,
              specs |-> Range(requiredColumnSpecs) \cup input.specs]

fromDelimited(input) ==
    LET parsed == parseDelimited(input)
        missing == missingColumns(colSlugsOf(parsed))
    IN  IF Len(missing) > 0
        THEN [status |-> "thrown", error |-> MissingColumnsError(missing),
              rows |-> <<>>, specs |-> {}]
        ELSE [status |-> "returned", error |-> NoMissingColumns, rows |-> parsed,
              specs |-> Range(requiredColumnSpecs) \cup input.specs]

InitDelimited ==
    /\ heap = <<>>
    /\ tables = <<>>
    /\ last = Call("new", 0, <<>>, ThisTable(0))
    /\ json = NoLegacy
    /\ csv \in CsvInputs
    /\ out = Idle

FromDelimited ==
    /\ out.status = "idle"
    /\ out' = fromDelimited(csv)
    /\ UNCHANGED <<heap, tables, last, json, csv>>

NextDelimited == FromDelimited

SpecDelimited == InitDelimited /\ [][NextDelimited]_vars

(* C11 as the specification states it: fromDelimited fails, returning no   *)
(* table and no row, whenever the header lacks one of the three reserved   *)
(* slugs or the slug of a caller-supplied spec, and succeeds only when all *)
(* of them are present.                                                    *)
FromDelimitedRequiresCallerSlugs ==
    out.status # "idle" =>
        (~((Range(requiredColumnSpecs) \cup csv.specs) \subseteq csv.header) =>
            out.status = "thrown" /\ out.rows = <<>>)

(* C11: fromDelimited fails, returning no table and no row, exactly when   *)
(* the first parsed record lacks one of the three reserved slugs (as it    *)
(* does when there is no data record at all); otherwise it returns a table *)
(* of the parsed records, whether or not the header has the slugs of the   *)
(* caller-supplied specs.                                                  *)
FromDelimitedRequiresReservedSlugs ==
    out.status # "idle" =>
        IF csv.rows = 0 \/ ~(Range(requiredColumnSpecs) \subseteq csv.header)
        THEN out.status = "thrown" /\ out.rows = <<>> /\ out.specs = {}
        ELSE /\ out.status = "returned"
             /\ Len(out.rows) = csv.rows
             /\ out.specs = Range(requiredColumnSpecs) \cup csv.specs

(* a table came back although the header lacks a caller-supplied slug *)
CallerSlugMissingAccepted ==
    /\ out.status = "returned"
    /\ ~(csv.specs \subseteq csv.header)

----------------------------------------------------------------------------
(* Cell values of the value columns and their arithmetic.  A number is     *)
(* kept exactly, as sign * n / d with n, d naturals and d > 0 (a zero      *)
(* keeps its sign); NaN, the two infinities and undefined are values of    *)
(* their own.  Rounding of the floating point results is not modelled.     *)

Num(s, n, d) == [k |-> "number", s |-> s, n |-> n, d |-> d]

RECURSIVE GCD(_, _)
GCD(x, y) == IF y = 0 THEN x ELSE GCD(y, x % y)

(* the number sign * n / d in lowest terms *)
Ratio(s, n, d) == Num(s, n \div GCD(n, d), d \div GCD(n, d))
NaN == [k |-> "NaN", s |-> 1, n |-> 0, d |-> 1]
Infinity(s) == [k |-> "Infinity", s |-> s, n |-> 1, d |-> 1]
UndefinedCell == [k |-> "undefined", s |-> 1, n |-> 0, d |-> 1]

NumberOf(x) == Num(IF x < 0 THEN -1 ELSE 1, Abs(x), 1)

(* typeof v === "number" *)
TypeofNumber(v) == v.k \in {"number", "NaN", "Infinity"}

(* a + b *)
Plus(a, b) ==
    IF a.k \in {"NaN", "undefined"} \/ b.k \in {"NaN", "undefined"} THEN NaN
    ELSE IF a.k = "Infinity" /\ b.k = "Infinity"
         THEN IF a.s = b.s THEN a ELSE NaN
    ELSE IF a.k = "Infinity" THEN a
    ELSE IF b.k = "Infinity" THEN b
    ELSE LET x == a.n * b.d
             y == b.n * a.d
             dd == a.d * b.d
         IN  IF a.s = b.s THEN Ratio(a.s, x + y, dd)
             ELSE IF x = y THEN Ratio(1, 0, dd)
             ELSE IF x > y THEN Ratio(a.s, x - y, dd)
             ELSE Ratio(b.s, y - x, dd)

(* a * b *)
Multiply(a, b) ==
    IF a.k \in {"NaN", "undefined"} \/ b.k \in {"NaN", "undefined"} THEN NaN
    ELSE IF a.k = "Infinity" \/ b.k = "Infinity"
         THEN IF (a.k = "number" /\ a.n = 0) \/ (b.k = "number" /\ b.n = 0)
              THEN NaN
              ELSE Infinity(a.s * b.s)
    ELSE Ratio(a.s * b.s, a.n * b.n, a.d * b.d)

(* a / b *)
Divide(a, b) ==
    IF a.k \in {"NaN", "undefined"} \/ b.k \in {"NaN", "undefined"} THEN NaN
    ELSE IF a.k = "Infinity"
         THEN IF b.k = "Infinity" THEN NaN ELSE Infinity(a.s * b.s)
    ELSE IF b.k = "Infinity" THEN Num(a.s * b.s, 0, 1)
    ELSE IF b.n = 0
         THEN IF a.n = 0 THEN NaN ELSE Infinity(a.s * b.s)
    ELSE Ratio(a.s * b.s, a.n * b.d, a.d * b.n)

(* sum of grapher/utils/Util: undefined elements are skipped, an empty     *)
(* array sums to 0 and an array of undefined elements to undefined         *)
RECURSIVE SumFrom(_, _, _)
SumFrom(values, i, result) ==
    IF i > Len(values) THEN result
    ELSE IF values[i].k = "undefined" THEN SumFrom(values, i + 1, result)
    ELSE IF result.k = "undefined" THEN SumFrom(values, i + 1, values[i])
    ELSE SumFrom(values, i + 1, Plus(result, values[i]))

sum(values) ==
    IF Len(values) = 0 THEN NumberOf(0) ELSE SumFrom(values, 1, UndefinedCell)

----------------------------------------------------------------------------
(* Derived metrics.  A table with value columns carries its column specs;  *)
(* a transformation maps every row to a new row object and returns a new   *)
(* table over the new rows.                                                *)

ColumnSlugs == {"gdp", "pop"}
ColumnSlugSeqs == {<<>>, <<"gdp">>, <<"pop">>, <<"gdp", "pop">>}
StartTimes == {0, 1}
GdpValues == {UndefinedCell, NumberOf(-1), NumberOf(1), NumberOf(3)}
PopValues == {NumberOf(0), NumberOf(2)}

ValueRow(name, time, gdp, pop) ==
    [entityName |-> name, entityCode |-> EntityCodeOf[name],
     entityId |-> EntityIdOf[name], time |-> time, gdp |-> gdp, pop |-> pop]

ValueRows ==
    {ValueRow(n, t, g, p) :
        n \in EntityNames, t \in StartTimes, g \in GdpValues, p \in PopValues}

ColumnSpec(slug, type) == [slug |-> slug, type |-> type]

ValueSpecs == <<ColumnSpec("gdp", "Numeric"), ColumnSpec("pop", "Numeric")>>

NewOwidTable(rows, specs, parent, opName) ==
    [rows |-> rows, specs |-> specs, parent |-> parent, op |-> opName,
     selectedRows |-> {}]

(* this.specs.map: the specs of the listed slugs get the new type *)
newSpecs(T, slugs, type) ==
    [i \in DOMAIN T.specs |->
        IF T.specs[i].slug \in slugs
        THEN [T.specs[i] EXCEPT !.type = type]
        ELSE T.specs[i]]

rowsOfAnyTime(T, time) == T.rows

rowsByTime(T, time) == SelectSeq(T.rows, LAMBDA r : heap[r].time = time)

Percent(value, total) == Divide(Multiply(NumberOf(100), value), total)

toPercentageFromEachEntityForEachTime(T, columnSlug) ==
    [specs |-> newSpecs(T, {columnSlug}, "Percentage"),
     rows |->
        [i \in DOMAIN T.rows |->
            LET row == heap[T.rows[i]]
                rowsForYear == rowsByTime(T, row.time)
                total == sum([j \in DOMAIN rowsForYear |->
                                 heap[rowsForYear[j]][columnSlug]])
            IN  [row EXCEPT ![columnSlug] = Percent(row[columnSlug], total)]]]

toPercentageFromEachColumnForEachEntityAndTime(T, columnSlugs) ==
    [specs |-> newSpecs(T, Range(columnSlugs), "RelativePercentage"),
     rows |->
        [i \in DOMAIN T.rows |->
            LET row == heap[T.rows[i]]
                total == sum([j \in DOMAIN columnSlugs |-> row[columnSlugs[j]]])
            IN  [slug \in DOMAIN row |->
                    IF slug \in Range(columnSlugs)
                    THEN Percent(row[slug], total)
                    ELSE row[slug]]]]

(* Column.valueByEntityNameAndTime: the value of the last row of the       *)
(* entity at that time that has a value in the column                      *)
valueByEntityNameAndTime(T, slug, name, time) ==
    LET rs == SelectSeq(T.rows, LAMBDA r : /\ heap[r].entityName = name
                                           /\ heap[r].time = time
                                           /\ heap[r][slug].k # "undefined")
    IN  IF Len(rs) = 0 THEN UndefinedCell ELSE heap[rs[Len(rs)]][slug]

toRatioForEachColumnComparedToStartTime(T, startTime, columnSlugs) ==
    [specs |-> newSpecs(T, Range(columnSlugs), "PercentChangeOverTime"),
     rows |->
        [i \in DOMAIN T.rows |->
            LET row == heap[T.rows[i]]
                comparisonValue(slug) ==
                    valueByEntityNameAndTime(T, slug, row.entityName, startTime)
            IN  [slug \in DOMAIN row |->
                    IF slug \in Range(columnSlugs)
                    THEN IF TypeofNumber(comparisonValue(slug))
                         THEN Percent(row[slug], comparisonValue(slug))
                         ELSE UndefinedCell
                    ELSE row[slug]]]]

toTotalGrowthForEachColumnComparedToStartTime(T, startTime, columnSlugs) ==
    [specs |-> newSpecs(T, Range(columnSlugs), "PercentChangeOverTime"),
     rows |->
        [i \in DOMAIN T.rows |->
            LET row == heap[T.rows[i]]
                comparisonValue(slug) ==
                    valueByEntityNameAndTime(T, slug, row.entityName, startTime)
            IN  [slug \in DOMAIN row |->
                    IF slug \in Range(columnSlugs)
                    THEN IF TypeofNumber(comparisonValue(slug))
                         THEN Plus(NumberOf(-100),
                                   Percent(row[slug], comparisonValue(slug)))
                         ELSE UndefinedCell
                    ELSE row[slug]]]]

(* new OwidTable(this.rows.map(...), newSpecs, this, description): the new *)
(* row objects are allocated after the existing ones                       *)
TransformedInPlace(i, result, opName, args) ==
    LET source == tables[i].rows
        t == NewOwidTable(source, result.specs, i, opName)
    IN  /\ i = Len(tables)
        /\ heap' = [r \in DOMAIN heap |->
                        IF \E k \in DOMAIN source : source[k] = r
                        THEN result.rows[CHOOSE k \in DOMAIN source : source[k] = r]
                        ELSE heap[r]]
        /\ tables' = Append(tables, t)
        /\ last' = Call(opName, i, args, ReturnedTable(t))
        /\ UNCHANGED Legacy

Transformed(i, result, opName, args) ==
    LET refs == [k \in DOMAIN result.rows |-> Len(heap) + k]
        t == NewOwidTable(refs, result.specs, i, opName)
    IN  /\ i = Len(tables)
        /\ heap' = heap \o result.rows
        /\ tables' = Append(tables, t)
        /\ last' = Call(opName, i, args, ReturnedTable(t))
        /\ UNCHANGED Legacy

ToPercentageFromEachEntityForEachTime(i, columnSlug) ==
    Transformed(i, toPercentageFromEachEntityForEachTime(tables[i], columnSlug),
                "toPercentageFromEachEntityForEachTime", <<columnSlug>>)

ToPercentageFromEachColumnForEachEntityAndTime(i, columnSlugs) ==
    Transformed(i,
                toPercentageFromEachColumnForEachEntityAndTime(tables[i], columnSlugs),
                "toPercentageFromEachColumnForEachEntityAndTime", <<columnSlugs>>)

ToTotalGrowthForEachColumnComparedToStartTime(i, startTime, columnSlugs) ==
    Transformed(i,
                toTotalGrowthForEachColumnComparedToStartTime(tables[i], startTime,
                                                              columnSlugs),
                "toTotalGrowthForEachColumnComparedToStartTime",
                <<startTime, columnSlugs>>)

RootOwidTable == NewOwidTable([i \in 1 .. MaxRows |-> i], ValueSpecs, 0, "root")

InitDerive ==
    /\ heap \in [1 .. MaxRows -> ValueRows]
    /\ tables = <<RootOwidTable>>
    /\ last = Call("new", 1, <<>>, ThisTable(1))
    /\ json = NoLegacy
    /\ csv = NoCsv
    /\ out = Idle

(* one transformation of the constructed table *)
NextDerive ==
    /\ Len(tables) = 1
    /\ \/ \E slug \in ColumnSlugs : ToPercentageFromEachEntityForEachTime(1, slug)
       \/ \E slugs \in ColumnSlugSeqs :
              ToPercentageFromEachColumnForEachEntityAndTime(1, slugs)
       \/ \E startTime \in StartTimes, slugs \in ColumnSlugSeqs :
              ToTotalGrowthForEachColumnComparedToStartTime(1, startTime, slugs)

SpecDerive == InitDerive /\ [][NextDerive]_vars

----------------------------------------------------------------------------
(* The lineage of a table with value columns: the transformations of the   *)
(* newest table add the table they return, and every table of the lineage  *)
(* can be selected in and copied from.                                     *)

LineageRowSeqs ==
    {[i \in 1 .. MaxRows |->
         ValueRow(names[i], (i - 1) % 2, NumberOf(i), NumberOf(2))] :
        names \in [1 .. MaxRows -> EntityNames]}

AddedColumns == <<ColumnSpec("share", "Numeric")>>

SortOrders == {"asc", "desc"}

filterByEntityName(T, i, name) ==
    NewOwidTable(rowsByEntityName(T, name), T.specs, i, "filterByEntityName")

withoutRows(T, i, rows) ==
    NewOwidTable(filterRows(T, Range(T.rows) \ Range(rows)), T.specs, i,
                 "withoutRows")

withColumns(T, i, columns) ==
    NewOwidTable(T.rows, T.specs \o columns, i, "withColumns")

(* the rows in the order of their times, rows of equal time in their       *)
(* former order                                                            *)
RECURSIVE sortedByTime(_, _)
sortedByTime(rows, order) ==
    IF rows = <<>> THEN <<>>
    ELSE LET before(a, b) == IF order = "asc" THEN heap[a].time < heap[b].time
                                              ELSE heap[a].time > heap[b].time
             first == CHOOSE k \in DOMAIN rows :
                          /\ \A j \in DOMAIN rows : ~before(rows[j], rows[k])
                          /\ \A j \in 1 .. k - 1 : before(rows[k], rows[j])
             rest == [j \in 1 .. Len(rows) - 1 |->
                         IF j < first THEN rows[j] ELSE rows[j + 1]]
         IN  <<rows[first]>> \o sortedByTime(rest, order)

sortBy(T, i, order) ==
    NewOwidTable(sortedByTime(T.rows, order), T.specs, i, "sortBy")

FilterByEntityName(i, name) ==
    Derived(i, filterByEntityName(tables[i], i, name), name)

WithoutRows(i, rows) ==
    Derived(i, withoutRows(tables[i], i, rows), rows)

WithColumns(i, columns) ==
    Derived(i, withColumns(tables[i], i, columns), columns)

SortBy(i, order) ==
    Derived(i, sortBy(tables[i], i, order), <<"time", order>>)

InitLineage ==
    /\ heap \in LineageRowSeqs
    /\ tables = <<RootOwidTable>>
    /\ last = Call("new", 1, <<>>, ThisTable(1))
    /\ json = NoLegacy
    /\ csv = NoCsv
    /\ out = Idle

NextLineage ==
    \E i \in DOMAIN tables :
        \/ ToggleSelection(i, "A")
        \/ tables[i].parent # 0 /\ CopySelectionFrom(i, tables[i].parent)
        \/ FilterByEntityName(i, "A")
        \/ WithoutRows(i, <<tables[1].rows[1]>>)
        \/ WithColumns(i, AddedColumns)
        \/ \E order \in SortOrders : SortBy(i, order)
        \/ /\ Len(tables) < MaxTables
           /\ \/ ToPercentageFromEachEntityForEachTime(i, "gdp")
              \/ ToPercentageFromEachColumnForEachEntityAndTime(i, <<"gdp", "pop">>)
              \/ ToTotalGrowthForEachColumnComparedToStartTime(i, 0, <<"gdp">>)

SpecLineage == InitLineage /\ [][NextLineage]_vars

----------------------------------------------------------------------------
(* Properties of the derived metrics.  The constructed table holds whole   *)
(* numbers, so a present value v is v.s * v.n.                             *)

Whole(v) == v.s * v.n

sourceTable == tables[last.this]
resultTable == last.ret.val

RECURSIVE TotalFrom(_, _)
TotalFrom(numbers, i) ==
    IF i > Len(numbers) THEN 0 ELSE numbers[i] + TotalFrom(numbers, i + 1)

(* the whole-number sum of the present values of a column at one time *)
TotalAt(T, slug, time) ==
    LET rs == SelectSeq(T.rows, LAMBDA r : /\ heap[r].time = time
                                           /\ heap[r][slug].k = "number")
    IN  TotalFrom([j \in DOMAIN rs |-> Whole(heap[rs[j]][slug])], 1)

(* the row keeps every cell but the ones of the given slugs *)
SameBut(derived, row, slugs) ==
    /\ DOMAIN derived = DOMAIN row
    /\ \A f \in DOMAIN row \ slugs : derived[f] = row[f]

(* C12: toPercentageFromEachEntityForEachTime(slug) returns a table whose  *)
(* rows are those of the source with the value v of slug replaced by       *)
(* 100 * v / S, S being the sum of slug over the source rows of the same   *)
(* time; so at every time where S is not zero the new values add up to     *)
(* 100.                                                                    *)
PercentageOfTimeTotal ==
    last.op = "toPercentageFromEachEntityForEachTime" =>
        LET slug == last.args[1]
            S(time) == TotalAt(sourceTable, slug, time)
            newAt(time) ==
                SelectSeq(resultTable.rows,
                          LAMBDA r : /\ heap[r].time = time
                                     /\ heap[r][slug].k = "number")
            newTotal(time) ==
                sum([j \in DOMAIN newAt(time) |-> heap[newAt(time)[j]][slug]])
        IN  /\ Len(resultTable.rows) = Len(sourceTable.rows)
            /\ \A i \in DOMAIN sourceTable.rows :
                   LET row == heap[sourceTable.rows[i]]
                       derived == heap[resultTable.rows[i]]
                       v == row[slug]
                       x == derived[slug]
                   IN  /\ SameBut(derived, row, {slug})
                       /\ (v.k = "number" /\ S(row.time) # 0) =>
                              /\ x.k = "number"
                              /\ x.s * x.n * S(row.time) = 100 * Whole(v) * x.d
            /\ \A time \in StartTimes :
                   S(time) # 0 =>
                       /\ newTotal(time).k = "number"
                       /\ newTotal(time).s = 1
                       /\ newTotal(time).n = 100 * newTotal(time).d

(* two entities share a time with values 1 and 3, which become 25 and 75 *)
SharesOfOneTimeReached ==
    /\ last.op = "toPercentageFromEachEntityForEachTime"
    /\ last.args[1] = "gdp"
    /\ \E i, j \in DOMAIN sourceTable.rows :
           LET a == heap[sourceTable.rows[i]]
               b == heap[sourceTable.rows[j]]
               x == heap[resultTable.rows[i]]["gdp"]
               y == heap[resultTable.rows[j]]["gdp"]
           IN  /\ a.entityName # b.entityName
               /\ a.time = b.time
               /\ a["gdp"] = NumberOf(1)
               /\ b["gdp"] = NumberOf(3)
               /\ x.n = 25 * x.d
               /\ y.n = 75 * y.d


ZeroOrAbsent(v) == v.k = "undefined" \/ (v.k = "number" /\ v.n = 0)

(* the whole-number sum of the present values of the listed columns of a row *)
TotalOf(row, slugs) ==
    LET listed == SelectSeq(slugs, LAMBDA slug : row[slug].k = "number")
    IN  TotalFrom([j \in DOMAIN listed |-> Whole(row[listed[j]])], 1)

(* C13: in the percentage and growth transformations a cell whose divisor  *)
(* is zero or absent (the sum of the column at the row's time, the sum of  *)
(* the listed columns of the row, the comparison value at startTime)       *)
(* becomes the no-value marker, never a number, NaN or an infinity.        *)
ZeroDivisorGivesNoValue ==
    /\ last.op = "toPercentageFromEachEntityForEachTime" =>
           \A i \in DOMAIN sourceTable.rows :
               LET row == heap[sourceTable.rows[i]]
               IN  TotalAt(sourceTable, last.args[1], row.time) = 0 =>
                       heap[resultTable.rows[i]][last.args[1]] = UndefinedCell
    /\ last.op = "toPercentageFromEachColumnForEachEntityAndTime" =>
           \A i \in DOMAIN sourceTable.rows, slug \in Range(last.args[1]) :
               LET row == heap[sourceTable.rows[i]]
               IN  TotalOf(row, last.args[1]) = 0 =>
                       heap[resultTable.rows[i]][slug] = UndefinedCell
    /\ last.op = "toTotalGrowthForEachColumnComparedToStartTime" =>
           \A i \in DOMAIN sourceTable.rows, slug \in Range(last.args[2]) :
               LET row == heap[sourceTable.rows[i]]
                   c == valueByEntityNameAndTime(sourceTable, slug,
                                                 row.entityName, last.args[1])
               IN  ZeroOrAbsent(c) =>
                       heap[resultTable.rows[i]][slug] = UndefinedCell

(* C14: toTotalGrowthForEachColumnComparedToStartTime(startTime, slugs)    *)
(* returns a table whose rows are those of the source where, for every     *)
(* listed slug, the value v is replaced by -100 + 100 * v / c, c being the *)
(* value of the slug for the row's entity at startTime in the source, and  *)
(* by the no-value marker when the entity has no value at startTime; the   *)
(* cells of the other columns are kept.                                    *)
GrowthComparedToStartTime ==
    last.op = "toTotalGrowthForEachColumnComparedToStartTime" =>
        LET startTime == last.args[1]
            slugs == Range(last.args[2])
        IN  /\ Len(resultTable.rows) = Len(sourceTable.rows)
            /\ \A i \in DOMAIN sourceTable.rows :
                   LET row == heap[sourceTable.rows[i]]
                       derived == heap[resultTable.rows[i]]
                   IN  /\ SameBut(derived, row, slugs)
                       /\ \A slug \in slugs :
                              LET v == row[slug]
                                  x == derived[slug]
                                  c == valueByEntityNameAndTime(
                                           sourceTable, slug, row.entityName,
                                           startTime)
                              IN  /\ c.k = "undefined" => x = UndefinedCell
                                  /\ (c.k = "number" /\ c.n # 0 /\ v.k = "number") =>
                                         /\ x.k = "number"
                                         /\ x.s * x.n * Whole(c) =
                                                (100 * Whole(v) - 100 * Whole(c)) * x.d

(* an entity went from 1 at startTime to 3, a growth of 200, while the     *)
(* other column was not listed                                             *)
GrowthOfTwoHundredReached ==
    /\ last.op = "toTotalGrowthForEachColumnComparedToStartTime"
    /\ last.args = <<0, <<"gdp">>>>
    /\ \E i, j \in DOMAIN sourceTable.rows :
           LET a == heap[sourceTable.rows[i]]
               b == heap[sourceTable.rows[j]]
               x == heap[resultTable.rows[j]]
           IN  /\ a.entityName = b.entityName
               /\ a.time = 0 /\ a["gdp"] = NumberOf(1)
               /\ b.time = 1 /\ b["gdp"] = NumberOf(3)
               /\ x["gdp"].s = 1 /\ x["gdp"].n = 200 * x["gdp"].d
               /\ x["pop"] = b["pop"]

----------------------------------------------------------------------------
(* Properties of the lineage of a table with value columns (SpecLineage) *)

(* C15: a table is immutable but for its own selection.  No step changes   *)
(* the rows (their sequence and their cells), the column specs or the      *)
(* parent of an existing table; the selection of a table changes only by a *)
(* selection operation called on that very table; and a transformation     *)
(* adds one new table whose parent is the table it was called on.          *)
TablesImmutableButSelection ==
    [][/\ Len(tables') >= Len(tables)
       /\ Len(heap') >= Len(heap)
       /\ \A r \in DOMAIN heap : heap'[r] = heap[r]
       /\ \A k \in DOMAIN tables :
              /\ tables'[k].rows = tables[k].rows
              /\ tables'[k].specs = tables[k].specs
              /\ tables'[k].parent = tables[k].parent
              /\ tables'[k].selectedRows # tables[k].selectedRows =>
                     /\ last'.this = k
                     /\ last'.ret = ThisTable(k)
       /\ Len(tables') > Len(tables) =>
              /\ Len(tables') = Len(tables) + 1
              /\ tables'[Len(tables')].parent = last'.this
              /\ last'.this \in DOMAIN tables
              /\ last'.ret = ReturnedTable(tables'[Len(tables')])
              /\ \A k \in DOMAIN tables : tables'[k] = tables[k]]_vars

(* a percentage table was derived from the root, a second table from it,   *)
(* and both descendants hold a selection while the root holds none         *)
DescendantsTransformedAndSelected ==
    /\ Len(tables) = 3
    /\ tables[2].op = "toPercentageFromEachEntityForEachTime"
    /\ tables[3].op = "toTotalGrowthForEachColumnComparedToStartTime"
    /\ tables[2].selectedRows # {}
    /\ tables[3].selectedRows # {}
    /\ tables[1] = RootOwidTable
    /\ Len(heap) = 3 * MaxRows

----------------------------------------------------------------------------
(* C16: after any sequence of selectEntity, deselectEntity,                *)
(* toggleSelection, setSelectedEntities, setSelectedEntitiesByCode,        *)
(* setSelectedEntitiesByEntityId and copySelectionFrom on a table, every   *)
(* entity has all of its rows selected or none; so the selected and the    *)
(* unselected entity names are disjoint and together are the available     *)
(* entity names, and toggleSelection(name) applied twice restores the      *)
(* selection.                                                              *)
SelectionIsEntityComplete ==
    \A i \in DOMAIN tables :
        LET T == tables[i]
        IN  /\ T.selectedRows \subseteq Range(T.rows)
            /\ \A name \in availableEntityNameSet(T) :
                   LET rows == Range(rowsByEntityName(T, name))
                   IN  rows \subseteq T.selectedRows \/ rows \cap T.selectedRows = {}
            /\ selectedEntityNameSet(T) \cap unselectedEntityNames(T) = {}
            /\ selectedEntityNameSet(T) \cup unselectedEntityNames(T) =
                   availableEntityNameSet(T)
            /\ \A name \in EntityNames :
                   toggleSelection(toggleSelection(T, name), name).selectedRows =
                       T.selectedRows

(* a toggle left the two rows of one entity selected *)
BothRowsOfEntityToggled ==
    /\ last.op = "toggleSelection"
    /\ Len(rowsByEntityName(thisTable, last.args)) = 2
    /\ thisTable.selectedRows = Range(rowsByEntityName(thisTable, last.args))
    /\ unselectedEntityNames(thisTable) = {}

====
